---- MODULE Spec2Model ----
(***************************************************************************)
(* The staged-pipeline execution engine of lsst/pipette                    *)
(* (python/lsst/pipette/engine/stage.py): BaseStage, IgnoredStage,         *)
(* MultiStage, IterateStage and IterateMultiStage.                         *)
(*                                                                         *)
(* A stage tree is built by the constructors and then run once by a        *)
(* driver.  Every call of a run method is a frame on a call stack; a       *)
(* frame holds the locals of the method it executes.  Python passes the    *)
(* keyword arguments as a fresh dict, so every frame owns its dict, while  *)
(* the lists bound in it are shared objects: they live in the heap and the *)
(* dicts hold references to them.  Assertions are enabled (python without  *)
(* -O).  No method of the module catches an exception, so a raise unwinds  *)
(* the whole stack at once.                                                *)
(***************************************************************************)
EXTENDS Integers, Sequences, FiniteSets, TLC

VARIABLES args,       \* constructor arguments of the stage tree (blueprint)
          tree,       \* the constructed stage tree
          clipboard0, \* the dict the driver passes to the top-level run
          heap,       \* list objects: address -> sequence of values
          stack,      \* call stack of run frames, innermost first
          outcome,    \* "new", "built", "running", "returned" or "failed"
          result,     \* what the top-level run returned
          error,      \* the exception that ended the run
          calls,      \* history: run invocations of child stages, in order
          provided,   \* history: the keys user stages returned in a delta, and where
          returns,    \* history: what the calls made by the root stage and by the
                      \* iterating stages returned, in order
          log,        \* the records the latest step handed to the logging sink
          checked     \* history: the call of _check the latest step made, if any

vars == <<args, tree, clipboard0, heap, stack, outcome, result, error, calls, provided, returns, log, checked>>

----------------------------------------------------------------------------
(* Bounds *)

MaxLen == 2        \* longest list bound in an initial clipboard
MaxVal == 2        \* number of distinct values a stage body may write
MaxStages == 2     \* most child stages of the top-level composite

----------------------------------------------------------------------------
(* Values, dicts and return values *)

Keys == {"A", "B", "AB", "k"}

Scalar(v) == [t |-> "int", v |-> v]
List(a) == [t |-> "list", v |-> a]

AddrA == 1
AddrB == 2

EmptyDict == [x \in {} |-> Scalar(0)]

has_key(d, key) == key \in DOMAIN d

\* dict.update: keys of e overwrite keys of d, no key is removed
update(d, e) == [x \in (DOMAIN d) \cup (DOMAIN e) |-> IF x \in DOMAIN e THEN e[x] ELSE d[x]]

RetNone == [t |-> "None", d |-> EmptyDict]
RetDict(d) == [t |-> "dict", d |-> d]

NoError == [kind |-> "none", stage |-> <<>>, line |-> 0]
Raise(kind, path, line) == [kind |-> kind, stage |-> path, line |-> line]

----------------------------------------------------------------------------
(* Constructors *)

ArgNone == [t |-> "None", s |-> "", set |-> {}]
ArgStr(s) == [t |-> "str", s |-> s, set |-> {}]
ArgSet(S) == [t |-> "set", s |-> "", set |-> S]

\* BaseStage.__init__: a single string becomes a one-element list, None the empty set
Normalize(arg) ==
    IF arg.t = "None" THEN {}
    ELSE IF arg.t = "str" THEN {arg.s}
    ELSE arg.set

BaseStageInit(b) ==
    [kind |-> b.kind, name |-> b.name,
     requires |-> Normalize(b.requires), provides |-> Normalize(b.provides),
     iterate |-> b.iterate, stages |-> <<>>]

IgnoredStageInit(b) ==
    [BaseStageInit(b) EXCEPT !.requires = {}, !.provides = {}]

\* Mutant: a stage's provisions are recorded before its requirements are looked at
RECURSIVE Aggregate_providesFirst(_, _, _, _)
Aggregate_providesFirst(stages, j, requires, provides) ==
    IF j > Len(stages) THEN [requires |-> requires, provides |-> provides]
    ELSE LET stage == stages[j]
             provides2 == provides \cup
                 {prov \in stage.provides : ~(prov \in provides)}
             requires2 == requires \cup
                 {req \in stage.requires : ~(req \in requires \/ req \in provides2)}
         IN Aggregate_providesFirst(stages, j + 1, requires2, provides2)

\* Mutant: a provision is recorded only when no stage so far requires the key
RECURSIVE Aggregate_skipRequired(_, _, _, _)
Aggregate_skipRequired(stages, j, requires, provides) ==
    IF j > Len(stages) THEN [requires |-> requires, provides |-> provides]
    ELSE LET stage == stages[j]
             requires2 == requires \cup
                 {req \in stage.requires : ~(req \in requires \/ req \in provides)}
             provides2 == provides \cup
                 {prov \in stage.provides : ~(prov \in provides \/ prov \in requires2)}
         IN Aggregate_skipRequired(stages, j + 1, requires2, provides2)

\* The loop of MultiStage.__init__ over self._stages, from child j on
RECURSIVE Aggregate(_, _, _, _)
Aggregate(stages, j, requires, provides) ==
    IF j > Len(stages) THEN [requires |-> requires, provides |-> provides]
    ELSE LET stage == stages[j]
             requires2 == requires \cup
                 {req \in stage.requires : ~(req \in requires \/ req \in provides)}
             provides2 == provides \cup
                 {prov \in stage.provides : ~(prov \in provides)}
         IN Aggregate(stages, j + 1, requires2, provides2)

MultiStageInit(b, stages) ==
    LET self == BaseStageInit(b)
        agg == Aggregate(stages, 1, {}, {})
    IN [self EXCEPT !.stages = stages,
                    !.requires = agg.requires \cup self.requires,
                    !.provides = agg.provides \cup self.provides]

IsComposite(kind) == kind \in {"MultiStage", "IterateMultiStage"}
IsIterating(kind) == kind \in {"IterateStage", "IterateMultiStage"}

\* Children are constructed before the composite that is given them
RECURSIVE Build(_)
Build(b) ==
    IF IsComposite(b.kind)
    THEN MultiStageInit(b, [j \in 1..Len(b.stages) |-> Build(b.stages[j])])
    ELSE IF b.kind = "IgnoredStage" THEN IgnoredStageInit(b)
    ELSE BaseStageInit(b)

\* The stage at a path of child positions below the root
RECURSIVE StageAt(_, _)
StageAt(t, path) ==
    IF path = <<>> THEN t ELSE StageAt(t.stages[Head(path)], Tail(path))

Unbuilt == [kind |-> "unbuilt"]

----------------------------------------------------------------------------
(* BaseStage._check, checkRequire, checkProvide *)

\* Mutant: the loop answers at the first key it finds present
_check_anyKey(check, clipboard) == check = {} \/ \E key \in check : has_key(clipboard, key)

_check(check, clipboard) == \A key \in check : has_key(clipboard, key)

\* The record _check hands to the log: a DEBUG record when the check passes,
\* a WARN record naming the first missing key the loop over the set meets
\* (a set has no fixed order, so any missing key may be the first)
_checkLog(path, check, which, clipboard) ==
    IF _check(check, clipboard)
    THEN {[level |-> "DEBUG", stage |-> path, which |-> which, key |-> ""]}
    ELSE {[level |-> "WARN", stage |-> path, which |-> which, key |-> key] :
             key \in {x \in check : ~has_key(clipboard, x)}}

NoCheck == [stage |-> <<>>, which |-> "", check |-> {}, clipboard |-> EmptyDict, ok |-> TRUE]

\* A step in which the stage at path calls _check: the record goes to the
\* log, and checked notes the set, the clipboard and the value returned
Logged(path, check, which, clipboard) ==
    /\ \E r \in _checkLog(path, check, which, clipboard) : log' = <<r>>
    /\ checked' = [stage |-> path, which |-> which, check |-> check,
                   clipboard |-> clipboard, ok |-> _check(check, clipboard)]

\* A step that neither logs nor checks
Quiet == log' = <<>> /\ checked' = NoCheck

checkRequire(self, clipboard) == _check(self.requires, clipboard)

checkProvide(self, clipboard) == _check(self.provides, clipboard)

----------------------------------------------------------------------------
(* Call stack *)

None == 0 - 1      \* the value of IterateStage.run's local "length" before it is set

\* Mutant: IterateMultiStage declared as (MultiStage, IterateStage)
RunMethod_basesSwapped(kind) ==
    CASE kind = "Stage" -> "Stage.run"
      [] kind = "BaseStage" -> "BaseStage.run"
      [] kind = "IgnoredStage" -> "IgnoredStage.run"
      [] kind = "MultiStage" -> "MultiStage.run"
      [] kind = "IterateStage" -> "IterateStage.run"
      [] kind = "IterateMultiStage" -> "MultiStage.run"

\* The run method a stage object resolves to.  Kind "Stage" is a user
\* subclass of BaseStage that overrides run with a body of its own.
RunMethod(kind) ==
    CASE kind = "Stage" -> "Stage.run"
      [] kind = "BaseStage" -> "BaseStage.run"
      [] kind = "IgnoredStage" -> "IgnoredStage.run"
      [] kind = "MultiStage" -> "MultiStage.run"
      [] kind = "IterateStage" -> "IterateStage.run"
      [] kind = "IterateMultiStage" -> "IterateStage.run"

\* super(IterateStage, self).run: the next run in the method resolution order
SuperRun(kind) ==
    IF kind = "IterateMultiStage" THEN "MultiStage.run" ELSE "BaseStage.run"

NewFrame(fn, path, clipboard) ==
    [fn |-> fn, self |-> path, pc |-> "start", clipboard |-> clipboard,
     j |-> 0, ret |-> RetNone,
     length |-> None, index |-> 0, iterate |-> EmptyDict]

Top == Head(stack)
Self == StageAt(tree, Top.self)
In(fn, pc) == outcome = "running" /\ stack # <<>> /\ Top.fn = fn /\ Top.pc = pc

\* The enclosing iterations (stage and index), outermost first
RECURSIVE At(_)
At(stk) ==
    IF stk = <<>> THEN <<>>
    ELSE LET f == Head(stk)
         IN IF f.fn = "IterateStage.run" /\ f.pc \in {"called", "returned"}
            THEN Append(At(Tail(stk)), [stage |-> f.self, index |-> f.index])
            ELSE At(Tail(stk))

Call(caller, fn, path, clipboard) ==
    /\ stack' = <<NewFrame(fn, path, clipboard), [caller EXCEPT !.pc = "called"]>> \o Tail(stack)
    /\ calls' = Append(calls, [stage |-> path, fn |-> fn,
                               at |-> At(<<[caller EXCEPT !.pc = "called"]>> \o Tail(stack))])

Return(value) ==
    /\ provided' = IF value.t = "dict" /\ Top.fn = "Stage.run"
                   THEN provided \cup {[at |-> At(stack), key |-> key] : key \in DOMAIN value.d}
                   ELSE provided
    /\ returns' = IF Len(stack) = 2 \/ (Len(stack) > 2 /\ stack[2].fn = "IterateStage.run")
                  THEN Append(returns, [stage |-> Top.self, fn |-> Top.fn,
                                        at |-> At(Tail(stack)), ret |-> value])
                  ELSE returns
    /\ IF Len(stack) = 1
       THEN /\ stack' = <<>>
            /\ outcome' = "returned"
            /\ result' = value
       ELSE /\ stack' = <<[stack[2] EXCEPT !.ret = value, !.pc = "returned"]>> \o Tail(Tail(stack))
            /\ UNCHANGED <<outcome, result>>

Fail(kind, line) ==
    /\ stack' = <<>>
    /\ outcome' = "failed"
    /\ error' = Raise(kind, Top.self, line)

----------------------------------------------------------------------------
(* Driver *)

Construct ==
    /\ outcome = "new"
    /\ tree' = Build(args)
    /\ outcome' = "built"
    /\ UNCHANGED <<args, clipboard0, heap, stack, result, error, calls, provided, returns>>
    /\ Quiet

Start ==
    /\ outcome = "built"
    /\ stack' = <<NewFrame(RunMethod(tree.kind), <<>>, clipboard0)>>
    /\ calls' = Append(calls, [stage |-> <<>>, fn |-> RunMethod(tree.kind), at |-> <<>>])
    /\ outcome' = "running"
    /\ UNCHANGED <<args, tree, clipboard0, heap, result, error, provided, returns>>
    /\ Quiet

----------------------------------------------------------------------------
(* Leaf stages *)

\* The keys a user stage's body may bind in what it hands back
Written == {"A", "k"}

\* What the body of a user stage may hand back: nothing, or a dict that
\* binds any set of keys to a value of its choosing
BodyReturns ==
    {RetNone} \cup
    {RetDict([x \in D |-> Scalar(0 - v)]) : D \in SUBSET Written, v \in 1..MaxVal}

StageRun ==
    /\ In("Stage.run", "start")
    /\ \E r \in BodyReturns : Return(r)
    /\ UNCHANGED <<args, tree, clipboard0, heap, error, calls>>
    /\ Quiet

StageRaise ==
    /\ In("Stage.run", "start")
    /\ Fail("StageError", 0)
    /\ UNCHANGED <<args, tree, clipboard0, heap, result, calls, provided, returns>>
    /\ Quiet

\* Mutant: the abstract run does nothing and hands back None
BaseStageRun_returnsNone ==
    /\ In("BaseStage.run", "start")
    /\ Return(RetNone)
    /\ UNCHANGED <<args, tree, clipboard0, heap, error, calls>>
    /\ Quiet

BaseStageRun ==
    /\ In("BaseStage.run", "start")
    /\ Fail("NotImplementedError", 79)
    /\ UNCHANGED <<args, tree, clipboard0, heap, result, calls, provided, returns>>
    /\ Quiet

\* Mutant: the ignored stage hands its clipboard back
IgnoredStageRun_clipboard ==
    /\ In("IgnoredStage.run", "start")
    /\ Return(RetDict(Top.clipboard))
    /\ log' = <<[level |-> "DEBUG", stage |-> Top.self, which |-> "ignored", key |-> ""]>>
    /\ checked' = NoCheck
    /\ UNCHANGED <<args, tree, clipboard0, heap, error, calls>>

IgnoredStageRun ==
    /\ In("IgnoredStage.run", "start")
    /\ Return(RetNone)
    /\ log' = <<[level |-> "DEBUG", stage |-> Top.self, which |-> "ignored", key |-> ""]>>
    /\ checked' = NoCheck
    /\ UNCHANGED <<args, tree, clipboard0, heap, error, calls>>

----------------------------------------------------------------------------
(* MultiStage.run *)

\* Mutant: the composite does not check its own requirements
MultiCheckRequire_skipped ==
    /\ In("MultiStage.run", "start")
    /\ stack' = <<[Top EXCEPT !.pc = "loop", !.j = 1]>> \o Tail(stack)
    /\ UNCHANGED <<outcome, result, error>>
    /\ UNCHANGED <<args, tree, clipboard0, heap, calls, provided, returns>>
    /\ Quiet

MultiCheckRequire ==
    /\ In("MultiStage.run", "start")
    /\ IF ~checkRequire(Self, Top.clipboard)
       THEN /\ Fail("RuntimeError", 146)
            /\ UNCHANGED result
       ELSE /\ stack' = <<[Top EXCEPT !.pc = "loop", !.j = 1]>> \o Tail(stack)
            /\ UNCHANGED <<outcome, result, error>>
    /\ Logged(Top.self, Self.requires, "requirements", Top.clipboard)
    /\ UNCHANGED <<args, tree, clipboard0, heap, calls, provided, returns>>

MultiChildRequire ==
    /\ In("MultiStage.run", "loop")
    /\ Top.j <= Len(Self.stages)
    /\ IF ~checkRequire(Self.stages[Top.j], Top.clipboard)
       THEN /\ Fail("AssertionError", 148)
            /\ UNCHANGED result
       ELSE /\ stack' = <<[Top EXCEPT !.pc = "call"]>> \o Tail(stack)
            /\ UNCHANGED <<outcome, result, error>>
    /\ Logged(Append(Top.self, Top.j), Self.stages[Top.j].requires, "requirements", Top.clipboard)
    /\ UNCHANGED <<args, tree, clipboard0, heap, calls, provided, returns>>

MultiCallChild ==
    /\ In("MultiStage.run", "call")
    /\ Call(Top, RunMethod(Self.stages[Top.j].kind), Append(Top.self, Top.j), Top.clipboard)
    /\ UNCHANGED <<args, tree, clipboard0, heap, outcome, result, error, provided, returns>>
    /\ Quiet

\* Mutant: the merge keeps the bindings the clipboard already has
MultiMerge_keepsOld ==
    /\ In("MultiStage.run", "returned")
    /\ IF Top.ret.t # "None" /\ ~checkProvide(Self.stages[Top.j], Top.ret.d)
       THEN /\ Fail("AssertionError", 152)
            /\ UNCHANGED result
       ELSE /\ stack' = <<[Top EXCEPT !.pc = "loop", !.j = @ + 1,
                                      !.clipboard = IF Top.ret.t # "None"
                                                    THEN update(Top.ret.d, @) ELSE @]>>
                        \o Tail(stack)
            /\ UNCHANGED <<outcome, result, error>>
    /\ IF Top.ret.t # "None"
       THEN Logged(Append(Top.self, Top.j), Self.stages[Top.j].provides, "provisions", Top.ret.d)
       ELSE Quiet
    /\ UNCHANGED <<args, tree, clipboard0, heap, calls, provided, returns>>

\* Mutant: the child's result is merged without the provisions assertion
MultiMerge_unchecked ==
    /\ In("MultiStage.run", "returned")
    /\ stack' = <<[Top EXCEPT !.pc = "loop", !.j = @ + 1,
                              !.clipboard = IF Top.ret.t # "None"
                                            THEN update(@, Top.ret.d) ELSE @]>>
                \o Tail(stack)
    /\ UNCHANGED <<outcome, result, error>>
    /\ UNCHANGED <<args, tree, clipboard0, heap, calls, provided, returns>>
    /\ Quiet

\* Mutant: the child's result is checked but never merged
MultiMerge_dropped ==
    /\ In("MultiStage.run", "returned")
    /\ IF Top.ret.t # "None" /\ ~checkProvide(Self.stages[Top.j], Top.ret.d)
       THEN /\ Fail("AssertionError", 152)
            /\ UNCHANGED result
       ELSE /\ stack' = <<[Top EXCEPT !.pc = "loop", !.j = @ + 1]>> \o Tail(stack)
            /\ UNCHANGED <<outcome, result, error>>
    /\ IF Top.ret.t # "None"
       THEN Logged(Append(Top.self, Top.j), Self.stages[Top.j].provides, "provisions", Top.ret.d)
       ELSE Quiet
    /\ UNCHANGED <<args, tree, clipboard0, heap, calls, provided, returns>>

MultiMerge ==
    /\ In("MultiStage.run", "returned")
    /\ IF Top.ret.t # "None" /\ ~checkProvide(Self.stages[Top.j], Top.ret.d)
       THEN /\ Fail("AssertionError", 152)
            /\ UNCHANGED result
       ELSE /\ stack' = <<[Top EXCEPT !.pc = "loop", !.j = @ + 1,
                                      !.clipboard = IF Top.ret.t # "None"
                                                    THEN update(@, Top.ret.d) ELSE @]>>
                        \o Tail(stack)
            /\ UNCHANGED <<outcome, result, error>>
    /\ IF Top.ret.t # "None"
       THEN Logged(Append(Top.self, Top.j), Self.stages[Top.j].provides, "provisions", Top.ret.d)
       ELSE Quiet
    /\ UNCHANGED <<args, tree, clipboard0, heap, calls, provided, returns>>

MultiReturn ==
    /\ In("MultiStage.run", "loop")
    /\ Top.j > Len(Self.stages)
    /\ Return(RetDict(Top.clipboard))
    /\ UNCHANGED <<args, tree, clipboard0, heap, error, calls>>
    /\ Quiet

----------------------------------------------------------------------------
(* IterateStage.run *)

IterList(names) == [t |-> "list", s |-> "", names |-> names]
IterStr(s) == [t |-> "str", s |-> s, names |-> <<>>]

\* Iterating over a python string yields its characters
Chars(s) ==
    CASE s = "AB" -> <<"A", "B">>
      [] OTHER -> <<s>>

\* "for name in self.iterate"
Names(iterate) == IF iterate.t = "str" THEN Chars(iterate.s) ELSE iterate.names

Range(seq) == {seq[p] : p \in 1..Len(seq)}

IterCheckRequire ==
    /\ In("IterateStage.run", "start")
    /\ IF ~checkRequire(Self, Top.clipboard)
       THEN /\ Fail("AssertionError", 177)
            /\ UNCHANGED result
       ELSE /\ stack' = <<[Top EXCEPT !.pc = "gather"]>> \o Tail(stack)
            /\ UNCHANGED <<outcome, result, error>>
    /\ Logged(Top.self, Self.requires, "requirements", Top.clipboard)
    /\ UNCHANGED <<args, tree, clipboard0, heap, calls, provided, returns>>

\* Mutant: "if not length" in place of "if length is None"
RECURSIVE Gather_falsy(_, _, _, _)
Gather_falsy(names, p, length, clipboard) ==
    IF p > Len(names) THEN [kind |-> "none", line |-> 0, length |-> length]
    ELSE LET name == names[p]
         IN IF ~has_key(clipboard, name)
            THEN [kind |-> "KeyError", line |-> 182, length |-> length]
            ELSE IF clipboard[name].t # "list"
            THEN [kind |-> "AssertionError", line |-> 183, length |-> length]
            ELSE LET array == heap[clipboard[name].v]
                 IN IF length = None \/ length = 0
                    THEN Gather_falsy(names, p + 1, Len(array), clipboard)
                    ELSE IF Len(array) # length
                    THEN [kind |-> "RuntimeError", line |-> 187, length |-> length]
                    ELSE Gather_falsy(names, p + 1, length, clipboard)

\* The loop that pulls out the lists to iterate over, from name p on
RECURSIVE Gather(_, _, _, _)
Gather(names, p, length, clipboard) ==
    IF p > Len(names) THEN [kind |-> "none", line |-> 0, length |-> length]
    ELSE LET name == names[p]
         IN IF ~has_key(clipboard, name)
            THEN [kind |-> "KeyError", line |-> 182, length |-> length]
            ELSE IF clipboard[name].t # "list"
            THEN [kind |-> "AssertionError", line |-> 183, length |-> length]
            ELSE LET array == heap[clipboard[name].v]
                 IN IF length = None
                    THEN Gather(names, p + 1, Len(array), clipboard)
                    ELSE IF Len(array) # length
                    THEN [kind |-> "RuntimeError", line |-> 187, length |-> length]
                    ELSE Gather(names, p + 1, length, clipboard)

\* Mutant: the run stores the list of names it walked in self.iterate
IterGather_normalises ==
    /\ In("IterateStage.run", "gather")
    /\ LET names == Names(Self.iterate)
           g == Gather(names, 1, None, Top.clipboard)
       IN IF g.kind # "none"
          THEN /\ Fail(g.kind, g.line)
               /\ UNCHANGED result
          ELSE /\ stack' = <<[Top EXCEPT !.pc = "loop", !.length = g.length, !.index = 0,
                                         !.iterate = [name \in Range(names) |-> Top.clipboard[name]]]>>
                           \o Tail(stack)
               /\ UNCHANGED <<outcome, result, error>>
    /\ tree' = IF Top.self = <<>> THEN [tree EXCEPT !.iterate = IterList(Names(@))] ELSE tree
    /\ UNCHANGED <<args, clipboard0, heap, calls, provided, returns>>
    /\ Quiet

IterGather ==
    /\ In("IterateStage.run", "gather")
    /\ LET names == Names(Self.iterate)
           g == Gather(names, 1, None, Top.clipboard)
       IN IF g.kind # "none"
          THEN /\ Fail(g.kind, g.line)
               /\ UNCHANGED result
          ELSE /\ stack' = <<[Top EXCEPT !.pc = "loop", !.length = g.length, !.index = 0,
                                         !.iterate = [name \in Range(names) |-> Top.clipboard[name]]]>>
                           \o Tail(stack)
               /\ UNCHANGED <<outcome, result, error>>
    /\ UNCHANGED <<args, tree, clipboard0, heap, calls, provided, returns>>
    /\ Quiet

\* The per-element clipboard: a copy of the dict with every iterated name
\* rebound to the element of its list at the index (0-based)
ElementClip(clipboard, iterate, index) ==
    [x \in DOMAIN clipboard |->
        IF x \in DOMAIN iterate THEN heap[iterate[x].v][index + 1] ELSE clipboard[x]]

IterNext ==
    /\ In("IterateStage.run", "loop")
    /\ Top.length # None
    /\ Top.index < Top.length
    /\ IF \E x \in DOMAIN Top.iterate : Top.index >= Len(heap[Top.iterate[x].v])
       THEN /\ Fail("IndexError", 195)
            /\ UNCHANGED calls
       ELSE /\ Call(Top, SuperRun(Self.kind), Top.self,
                    ElementClip(Top.clipboard, Top.iterate, Top.index))
            /\ UNCHANGED <<outcome, error>>
    /\ UNCHANGED <<args, tree, clipboard0, heap, result, provided, returns>>
    /\ Quiet

\* Mutant: only the first of the names is put back
PutBack_firstOnly(names, p, iterate, index, clip, h) ==
    IF p > Len(names) THEN [kind |-> "none", heap |-> h]
    ELSE LET name == names[p]
         IN IF ~has_key(clip, name)
            THEN [kind |-> "KeyError", heap |-> h]
            ELSE [kind |-> "none", heap |-> [h EXCEPT ![iterate[name].v][index + 1] = clip[name]]]

\* Mutant: the result is put back at the front of the list, not at the index
RECURSIVE PutBack_front(_, _, _, _, _, _)
PutBack_front(names, p, iterate, index, clip, h) ==
    IF p > Len(names) THEN [kind |-> "none", heap |-> h]
    ELSE LET name == names[p]
         IN IF ~has_key(clip, name)
            THEN [kind |-> "KeyError", heap |-> h]
            ELSE PutBack_front(names, p + 1, iterate, index, clip,
                               [h EXCEPT ![iterate[name].v][1] = clip[name]])

\* "Put result back": array[index] = clip[name] for the names in order,
\* from name p on; stops at the first name the result lacks
RECURSIVE PutBack(_, _, _, _, _, _)
PutBack(names, p, iterate, index, clip, h) ==
    IF p > Len(names) THEN [kind |-> "none", heap |-> h]
    ELSE LET name == names[p]
         IN IF ~has_key(clip, name)
            THEN [kind |-> "KeyError", heap |-> h]
            ELSE PutBack(names, p + 1, iterate, index, clip,
                         [h EXCEPT ![iterate[name].v][index + 1] = clip[name]])

\* Mutant: what the body returned is also merged into the outer clipboard
IterPutBack_leaks ==
    /\ In("IterateStage.run", "returned")
    /\ LET names == Names(Self.iterate)
           w == IF Top.ret.t = "None"
                THEN [kind |-> "TypeError", heap |-> heap]
                ELSE PutBack(names, 1, Top.iterate, Top.index, Top.ret.d, heap)
       IN /\ heap' = w.heap
          /\ IF w.kind # "none"
             THEN /\ Fail(w.kind, 201)
                  /\ UNCHANGED result
             ELSE /\ stack' = <<[Top EXCEPT !.pc = "loop", !.index = @ + 1,
                                            !.clipboard = [x \in DOMAIN @ \cup DOMAIN Top.ret.d |->
                                                IF x \in DOMAIN Top.ret.d \ DOMAIN Top.iterate
                                                THEN Top.ret.d[x] ELSE @[x]]]>>
                              \o Tail(stack)
                  /\ UNCHANGED <<outcome, result, error>>
    /\ UNCHANGED <<args, tree, clipboard0, calls, provided, returns>>
    /\ Quiet

IterPutBack ==
    /\ In("IterateStage.run", "returned")
    /\ LET names == Names(Self.iterate)
           w == IF Top.ret.t = "None"
                THEN [kind |-> "TypeError", heap |-> heap]
                ELSE PutBack(names, 1, Top.iterate, Top.index, Top.ret.d, heap)
       IN /\ heap' = w.heap
          /\ IF w.kind # "none"
             THEN /\ Fail(w.kind, 201)
                  /\ UNCHANGED result
             ELSE /\ stack' = <<[Top EXCEPT !.pc = "loop", !.index = @ + 1]>> \o Tail(stack)
                  /\ UNCHANGED <<outcome, result, error>>
    /\ UNCHANGED <<args, tree, clipboard0, calls, provided, returns>>
    /\ Quiet

\* Mutant: the closing assertion tests the requirements once more
IterFinish_checksRequire ==
    /\ In("IterateStage.run", "loop")
    /\ Top.length = None \/ Top.index >= Top.length
    /\ IF Top.length = None
       THEN /\ Fail("TypeError", 190)
            /\ UNCHANGED <<result, provided, returns>>
       ELSE IF ~checkRequire(Self, Top.clipboard)
       THEN /\ Fail("AssertionError", 202)
            /\ UNCHANGED <<result, provided, returns>>
       ELSE /\ Return(RetDict(Top.clipboard))
            /\ UNCHANGED error
    /\ IF Top.length # None
       THEN Logged(Top.self, Self.requires, "requirements", Top.clipboard)
       ELSE Quiet
    /\ UNCHANGED <<args, tree, clipboard0, heap, calls>>

\* Mutant: the closing provisions assertion is left out
IterFinish_unchecked ==
    /\ In("IterateStage.run", "loop")
    /\ Top.length = None \/ Top.index >= Top.length
    /\ IF Top.length = None
       THEN /\ Fail("TypeError", 190)
            /\ UNCHANGED <<result, provided, returns>>
       ELSE /\ Return(RetDict(Top.clipboard))
            /\ UNCHANGED error
    /\ UNCHANGED <<args, tree, clipboard0, heap, calls>>
    /\ Quiet

IterFinish ==
    /\ In("IterateStage.run", "loop")
    /\ Top.length = None \/ Top.index >= Top.length
    /\ IF Top.length = None
       THEN /\ Fail("TypeError", 190)
            /\ UNCHANGED <<result, provided, returns>>
       ELSE IF ~checkProvide(Self, Top.clipboard)
       THEN /\ Fail("AssertionError", 202)
            /\ UNCHANGED <<result, provided, returns>>
       ELSE /\ Return(RetDict(Top.clipboard))
            /\ UNCHANGED error
    /\ IF Top.length # None
       THEN Logged(Top.self, Self.provides, "provisions", Top.clipboard)
       ELSE Quiet
    /\ UNCHANGED <<args, tree, clipboard0, heap, calls>>

----------------------------------------------------------------------------
(* Initial states: the stage trees a driver may build and the clipboards   *)
(* it may pass                                                             *)

Mk(kind, name, requires, provides, iterate, stages) ==
    [kind |-> kind, name |-> name, requires |-> requires, provides |-> provides,
     iterate |-> iterate, stages |-> stages]

NoIter == IterList(<<>>)

User(requires, provides) == Mk("Stage", "user", requires, provides, NoIter, <<>>)

\* IgnoredStage is constructed with whatever the disabled stage declared
Ignored == Mk("IgnoredStage", "ignored", ArgStr("k"), ArgSet({"k"}), NoIter, <<>>)

Abstract == Mk("BaseStage", "base", ArgNone, ArgNone, NoIter, <<>>)

OwnArgs == {ArgNone, ArgStr("k")}

SeqsUpTo(S, n) == UNION {[1..m -> S] : m \in 0..n}

\* Children of a top-level MultiStage
MultiLeaves ==
    {User(r, p) : r \in {ArgNone, ArgStr("k")}, p \in {ArgNone, ArgSet({"k"})}}
        \cup {Ignored, Abstract}

\* Children of a top-level IterateMultiStage
IterateLeaves ==
    {User(ArgNone, ArgNone), User(ArgStr("k"), ArgNone), User(ArgNone, ArgStr("k")),
     User(ArgStr("A"), ArgStr("A")), Ignored}

Designators == {IterList(<<"A">>), IterList(<<"A", "B">>), IterList(<<"B", "A">>), IterStr("A")}

FlatMulti ==
    {Mk("MultiStage", "multi", r, p, NoIter, stages) :
        r \in OwnArgs, p \in OwnArgs, stages \in SeqsUpTo(MultiLeaves, MaxStages)}

FlatIterate ==
    {Mk("IterateMultiStage", "iterate", ArgNone, ArgNone, it, stages) :
        it \in Designators, stages \in SeqsUpTo(IterateLeaves, MaxStages)}

\* An IterateStage with no body of its own
PlainIterate == {Mk("IterateStage", "plain", ArgNone, ArgNone, IterList(<<"A">>), <<>>)}

ListOf(n, base) == [i \in 1..n |-> Scalar(base + i)]

\* A clipboard: k is a scalar when present, B a list; A is "absent", a
\* "scalar" or a "list"
Clipboard(hasK, shapeA, hasB) ==
    [x \in (IF hasK THEN {"k"} ELSE {}) \cup (IF shapeA # "absent" THEN {"A"} ELSE {})
           \cup (IF hasB THEN {"B"} ELSE {}) |->
        CASE x = "k" -> Scalar(0)
          [] x = "A" -> IF shapeA = "scalar" THEN Scalar(0) ELSE List(AddrA)
          [] x = "B" -> List(AddrB)]

Heap(la, lb) ==
    [a \in {AddrA, AddrB} |-> IF a = AddrA THEN ListOf(la, 0) ELSE ListOf(lb, MaxLen)]

\* Clipboards for a MultiStage of leaves: only the presence of keys matters
PresenceInputs ==
    {[clipboard |-> Clipboard(hasK, "absent", FALSE), heap |-> Heap(0, 0)] : hasK \in BOOLEAN}

\* Clipboards for an iterating stage: lists of every length up to MaxLen
ListInputs ==
    {[clipboard |-> Clipboard(hasK, "list", TRUE), heap |-> Heap(la, lb)] :
        hasK \in BOOLEAN, la \in 0..MaxLen, lb \in 0..MaxLen}
    \cup {[clipboard |-> Clipboard(hasK, "list", FALSE), heap |-> Heap(la, 0)] :
        hasK \in BOOLEAN, la \in 0..MaxLen}
    \cup {[clipboard |-> Clipboard(hasK, shapeA, TRUE), heap |-> Heap(0, 1)] :
        hasK \in BOOLEAN, shapeA \in {"absent", "scalar"}}

\* Leaves of the nested trees
NestedLeaves == {User(ArgNone, ArgNone), User(ArgNone, ArgStr("k")), User(ArgStr("k"), ArgNone)}

\* A composite, plain or iterating, of one leaf
Inner ==
    {Mk(kind, "inner", ArgNone, ArgNone, IterList(<<"A">>), <<leaf>>) :
        kind \in {"MultiStage", "IterateMultiStage"}, leaf \in NestedLeaves}

\* A top-level composite of a composite and a leaf that follows it
Nested ==
    {Mk(kind, "outer", ArgNone, ArgNone, IterList(<<"A">>), <<inner, leaf>>) :
        kind \in {"MultiStage", "IterateMultiStage"}, inner \in Inner, leaf \in NestedLeaves}

\* Clipboards for the nested trees: A is a list, B is missing
NestedInputs ==
    {[clipboard |-> Clipboard(hasK, "list", FALSE), heap |-> Heap(la, 0)] :
        hasK \in BOOLEAN, la \in 0..MaxLen}

\* An iterating composite given the bare name of a key of several characters
StrIterate ==
    {Mk("IterateMultiStage", "iterate", ArgNone, ArgNone, IterStr("AB"), stages) :
        stages \in SeqsUpTo({User(ArgNone, ArgNone)}, 1)}

\* Clipboards that bind that key to a list, alone or next to the key "A"
StrInputs ==
    {[clipboard |-> [x \in {"AB"} \cup more |-> IF x = "AB" THEN List(AddrA) ELSE List(AddrB)],
      heap |-> Heap(la, la)] : more \in {{}, {"A"}}, la \in 1..MaxLen}

\* A leaf stage run directly by the driver
Single == {User(ArgNone, ArgStr("k")), Ignored, Abstract}

Configs ==
    {[tree |-> t, input |-> i] : t \in FlatMulti \cup Single, i \in PresenceInputs}
    \cup {[tree |-> t, input |-> i] : t \in FlatIterate \cup PlainIterate, i \in ListInputs}
    \cup {[tree |-> t, input |-> i] : t \in Nested, i \in NestedInputs}
    \cup {[tree |-> t, input |-> i] : t \in StrIterate, i \in StrInputs}

Init ==
    /\ \E c \in Configs :
          /\ args = c.tree
          /\ clipboard0 = c.input.clipboard
          /\ heap = c.input.heap
    /\ tree = Unbuilt
    /\ stack = <<>>
    /\ outcome = "new"
    /\ result = RetNone
    /\ error = NoError
    /\ calls = <<>>
    /\ provided = {}
    /\ returns = <<>>
    /\ log = <<>>
    /\ checked = NoCheck

Next ==
    \/ Construct
    \/ Start
    \/ StageRun
    \/ StageRaise
    \/ BaseStageRun
    \/ IgnoredStageRun
    \/ MultiCheckRequire
    \/ MultiChildRequire
    \/ MultiCallChild
    \/ MultiMerge
    \/ MultiReturn
    \/ IterCheckRequire
    \/ IterGather
    \/ IterNext
    \/ IterPutBack
    \/ IterFinish

Spec == Init /\ [][Next]_vars

----------------------------------------------------------------------------
(* Properties *)

Built == outcome # "new"

\* The length of the lists the top-level iterating stage runs over
IterationLength ==
    LET names == Names(tree.iterate)
    IN IF names # <<>> /\ has_key(clipboard0, names[1]) /\ clipboard0[names[1]].t = "list"
       THEN Len(heap[clipboard0[names[1]].v])
       ELSE 0

\* The invocations of the top-level stage's children, in the order they happened
ChildCalls == SelectSeq(calls, LAMBDA c : Len(c.stage) = 1)

\* The frames of the top-level stage's children now on the stack
ChildFrames == {p \in 1..Len(stack) : Len(stack[p].self) = 1}

\* C1: an IterateMultiStage with children S1..Sm invokes them index-major:
\* the q-th child invocation (q = 0, 1, ...) is child (q mod m) + 1 for index
\* q div m, one child invocation is on the stack at a time, and a run that
\* got through all n indices has made exactly m * n child invocations.
C1_IndexMajor ==
    (Built /\ tree.kind = "IterateMultiStage") =>
        LET m == Len(tree.stages)
        IN /\ \A q \in 1..Len(ChildCalls) :
                /\ m > 0
                /\ ChildCalls[q].stage = <<((q - 1) % m) + 1>>
                /\ ChildCalls[q].at = <<[stage |-> <<>>, index |-> (q - 1) \div m]>>
           /\ Cardinality(ChildFrames) <= 1
           /\ (outcome = "returned" \/ (outcome = "failed" /\ error.line = 202))
                 => Len(ChildCalls) = m * IterationLength

C1_Witness ==
    /\ outcome = "returned"
    /\ tree.kind = "IterateMultiStage"
    /\ Len(tree.stages) = 2
    /\ IterationLength = 2
    /\ Len(ChildCalls) = 4

\* C2 (as claimed): a MultiStage run on a clipboard whose keys are exactly
\* its derived requires never fails the checkRequire of a child (line 148).
C2_ChildRequireNeverFails ==
    (Built /\ tree.kind = "MultiStage" /\ DOMAIN clipboard0 = tree.requires) =>
        ~(outcome = "failed" /\ error.kind = "AssertionError" /\ error.line = 148)

\* The keys some child Cj requires while no child Ci with i < j provides them
Unprovided(stages) ==
    {k \in Keys : \E j \in 1..Len(stages) :
        /\ k \in stages[j].requires
        /\ \A i \in 1..(j - 1) : k \notin stages[i].provides}

\* The same, when a child's own provisions also count (i <= j)
UnprovidedOrSelf(stages) ==
    {k \in Keys : \E j \in 1..Len(stages) :
        /\ k \in stages[j].requires
        /\ \A i \in 1..j : k \notin stages[i].provides}

\* C3 (as claimed): the derived requires is the explicit requires R united
\* with the keys some child Cj requires and no child Ci with i <= j provides.
C3_Original ==
    (Built /\ IsComposite(tree.kind)) =>
        tree.requires = Normalize(args.requires) \cup UnprovidedOrSelf(tree.stages)

\* C3 (amended): the derived requires is the explicit requires R united with
\* the keys some child Cj requires and no strictly earlier child Ci (i < j)
\* provides; a key the same child both requires and provides does surface.
C3_DerivedRequires ==
    (Built /\ IsComposite(tree.kind)) =>
        tree.requires = Normalize(args.requires) \cup Unprovided(tree.stages)

C3_Witness ==
    /\ Built /\ tree.kind = "MultiStage"
    /\ Len(tree.stages) = 2
    /\ "k" \in tree.stages[1].requires /\ "k" \in tree.stages[1].provides
    /\ "k" \in tree.stages[2].requires
    /\ Normalize(args.requires) = {}
    /\ tree.requires = {"k"}

\* C4: the derived provides is the explicit provides P united with the
\* provides of every child, whatever the children's order and requires.
C4_DerivedProvides ==
    (Built /\ IsComposite(tree.kind)) =>
        tree.provides = Normalize(args.provides) \cup
                        UNION {tree.stages[j].provides : j \in 1..Len(tree.stages)}

C4_Witness ==
    /\ Built /\ tree.kind = "MultiStage"
    /\ Len(tree.stages) = 2
    /\ "k" \in tree.stages[1].requires
    /\ tree.stages[1].provides = {}
    /\ tree.stages[2].provides = {"k"}
    /\ Normalize(args.provides) = {}
    /\ tree.provides = {"k"}

\* The top-level stage is an iterating one
Iterating == Built /\ IsIterating(tree.kind)

\* The names the top-level iterating stage runs over are all bound to lists
AllLists ==
    \A name \in Range(Names(tree.iterate)) :
        has_key(clipboard0, name) /\ clipboard0[name].t = "list"

\* The lengths of the lists the top-level iterating stage runs over
Lengths == {Len(heap[clipboard0[name].v]) : name \in Range(Names(tree.iterate))}

\* The calls of the body of the top-level iterating stage, in order
BodyCalls == SelectSeq(calls, LAMBDA c : c.stage = <<>> /\ c.fn = SuperRun(tree.kind))

\* What the body of the top-level iterating stage returned, call by call
BodyReturned ==
    SelectSeq(returns, LAMBDA b : b.stage = <<>> /\ b.fn = SuperRun(tree.kind) /\ b.at # <<>>)

\* No list element differs from what the driver passed
Pristine == heap = Heap(Len(heap[AddrA]), Len(heap[AddrB]))

\* The run got through every index (it returned or reached line 202)
Completed == outcome = "returned" \/ (outcome = "failed" /\ error.line = 202)

\* C5: an iterating stage over lists of one length n (each key bound to a
\* list of its own) calls its body for the indices 0, 1, ... in order and n
\* times in a completed run; the call for index i gets the outer clipboard
\* with each iterated key rebound to element i of its list; and after a
\* completed run element i of each iterated list is what the body's returned
\* clipboard bound to that key at index i.
C5_PerElement ==
    (Iterating /\ AllLists /\ Cardinality(Lengths) = 1) =>
        LET names == Range(Names(tree.iterate))
        IN /\ \A q \in 1..Len(BodyCalls) :
                 BodyCalls[q].at = <<[stage |-> <<>>, index |-> q - 1]>>
           /\ (Len(stack) = 2 /\ Top.self = <<>> /\ Top.pc = "start") =>
                 Top.clipboard =
                     [x \in DOMAIN clipboard0 |->
                         IF x \in names THEN heap[clipboard0[x].v][stack[2].index + 1]
                         ELSE clipboard0[x]]
           /\ Completed =>
                 /\ Len(BodyCalls) = IterationLength
                 /\ Len(BodyReturned) = IterationLength
                 /\ \A i \in 0..(IterationLength - 1) : \A name \in names :
                       heap[clipboard0[name].v][i + 1] = BodyReturned[i + 1].ret.d[name]

C5_Witness ==
    /\ Iterating /\ outcome = "returned"
    /\ Names(tree.iterate) = <<"A", "B">>
    /\ IterationLength = 2
    /\ Len(BodyCalls) = 2
    /\ heap[AddrA] = <<Scalar(0 - 1), Scalar(0 - 2)>>
    /\ heap[AddrB] = ListOf(2, MaxLen)

\* C6: when the iterated lists do not all have one length, the run neither
\* calls the body nor changes a list element nor returns: it ends in the
\* RuntimeError of line 187 (or the requirements assertion of line 177 before
\* it), whichever list deviates and also when a length is 0.
C6_LengthMismatch ==
    (Iterating /\ AllLists /\ Cardinality(Lengths) > 1) =>
        /\ BodyCalls = <<>>
        /\ Pristine
        /\ outcome # "returned"
        /\ \A p \in 1..Len(stack) : stack[p].pc \in {"start", "gather"}
        /\ outcome = "failed" =>
              \/ error.kind = "RuntimeError" /\ error.line = 187
              \/ error.kind = "AssertionError" /\ error.line = 177

C6_Witness ==
    /\ Iterating /\ outcome = "failed"
    /\ error.kind = "RuntimeError" /\ error.line = 187
    /\ Names(tree.iterate) = <<"A", "B">>
    /\ Len(heap[AddrA]) = 0 /\ Len(heap[AddrB]) = 2
    /\ calls = <<[stage |-> <<>>, fn |-> "IterateStage.run", at |-> <<>>]>>

\* The iterated lists are all empty and the requires are in the clipboard
EmptyIteration ==
    Iterating /\ AllLists /\ Lengths = {0} /\ checkRequire(tree, clipboard0)

\* C7 (as claimed): over lists of length 0 the body is never called and the
\* run returns the clipboard it was given, whatever the declared provides.
C7_Original ==
    EmptyIteration =>
        /\ BodyCalls = <<>>
        /\ outcome \in {"returned", "failed"} =>
              outcome = "returned" /\ result = RetDict(clipboard0)

\* C7 (amended): over lists of length 0 the body is never called; the run
\* returns the clipboard it was given when every key of the stage's provides
\* is in that clipboard, and otherwise fails the provisions assertion of
\* line 202.
C7_EmptyIteration ==
    EmptyIteration =>
        /\ BodyCalls = <<>>
        /\ Pristine
        /\ outcome \in {"returned", "failed"} =>
              IF checkProvide(tree, clipboard0)
              THEN outcome = "returned" /\ result = RetDict(clipboard0)
              ELSE outcome = "failed" /\ error.kind = "AssertionError" /\ error.line = 202

C7_Witness ==
    /\ EmptyIteration
    /\ Len(tree.stages) = 2
    /\ tree.provides = {"k"}
    /\ ~has_key(clipboard0, "k")
    /\ outcome = "failed" /\ error.line = 202

\* C8 (as claimed): whenever the run of a MultiStage returns normally, what
\* it hands back is a clipboard that holds every key of its derived provides.
C8_ProvidesPresent ==
    (Built /\ tree.kind = "MultiStage" /\ outcome = "returned") =>
        result.t = "dict" /\ tree.provides \subseteq DOMAIN result.d

\* The top frame is a MultiStage.run that has just got back the result of an IgnoredStage
IgnoredReturned ==
    /\ In("MultiStage.run", "returned")
    /\ Self.stages[Top.j].kind = "IgnoredStage"

\* C10 (as claimed): IgnoredStage.run never fails and returns the clipboard
\* it was given, keys and bindings unchanged.
C10_Original ==
    /\ IgnoredReturned => Top.ret = RetDict(Top.clipboard)
    /\ (Built /\ tree.kind = "IgnoredStage" /\ outcome # "built") =>
          outcome # "failed" /\ (outcome = "returned" => result = RetDict(clipboard0))

\* What IgnoredStage.run leaves in place: the lists, and the caller's frame
\* but for the result it receives
IgnoredStep ==
    In("IgnoredStage.run", "start") =>
        /\ heap' = heap
        /\ outcome' # "failed"
        /\ Len(stack) > 1 =>
              /\ Head(stack').ret = RetNone
              /\ Head(stack').clipboard = stack[2].clipboard
        /\ Len(stack) = 1 => result' = RetNone

\* C10 (amended): IgnoredStage.run never fails and changes neither a list
\* nor its caller's clipboard, for every clipboard including the empty one,
\* but it returns nothing (None): it hands back no clipboard.
C10_IgnoredReturnsNone ==
    /\ [](IgnoredReturned => Top.ret = RetNone)
    /\ [](outcome = "failed" => StageAt(tree, error.stage).kind # "IgnoredStage")
    /\ [][IgnoredStep]_vars

C10_Witness ==
    /\ IgnoredReturned
    /\ Top.clipboard = EmptyDict
    /\ Top.ret = RetNone

\* A stage (not the body of an iterating stage) has just been invoked
StageEntered ==
    /\ outcome = "running" /\ stack # <<>>
    /\ Top.pc = "start"
    /\ Len(stack) > 1 => stack[2].self # Top.self

IsPrefix(a, b) == Len(a) <= Len(b) /\ SubSeq(b, 1, Len(a)) = a

\* C9 (as claimed): a key some stage has returned in its delta is in the
\* clipboard of every stage invoked later in the run.
C9_Original ==
    StageEntered => \A e \in provided : has_key(Top.clipboard, e.key)

\* C9 (amended): a key some stage has returned in its delta is in the
\* clipboard of every stage invoked later in the run within the same
\* per-element views: the stage runs under every iteration index the
\* provider ran under.  (A key provided at one index of an iteration does not
\* reach later indices or the stages after the iterating stage.)
C9_VisibleInScope ==
    StageEntered =>
        \A e \in provided : IsPrefix(e.at, At(stack)) => has_key(Top.clipboard, e.key)

\* A leaf that follows a nested MultiStage inside an iteration sees the key
\* the nested stage's child provided at this index
C9_Witness ==
    /\ StageEntered
    /\ tree.kind = "IterateMultiStage"
    /\ Top.self = <<2>>
    /\ At(stack) = <<[stage |-> <<>>, index |-> 1]>>
    /\ [at |-> At(stack), key |-> "k"] \in provided
    /\ ~has_key(clipboard0, "k")
    /\ calls[Len(calls) - 1].stage = <<1, 1>>

----------------------------------------------------------------------------
(* The contract checks *)

\* C11: checkRequire and checkProvide return true exactly when every key of
\* the checked set is in the clipboard they are given, and so true for the
\* empty set whatever the clipboard; a call that returns true logs one DEBUG
\* record and nothing else, a call that returns false logs one WARN record
\* naming a key of the set that the clipboard lacks; the call itself never
\* ends the run when it returns true, and leaves the stage tree, the lists
\* and the caller's clipboard as they were.
C11_CheckIsPure ==
    /\ [](checked # NoCheck =>
            /\ checked.ok <=> (\A key \in checked.check : key \in DOMAIN checked.clipboard)
            /\ checked.check = {} => checked.ok
            /\ Len(log) = 1
            /\ log[1].stage = checked.stage
            /\ log[1].which = checked.which
            /\ checked.ok => log[1].level = "DEBUG"
            /\ ~checked.ok => /\ log[1].level = "WARN"
                              /\ log[1].key \in checked.check \ DOMAIN checked.clipboard)
    /\ [][checked' # NoCheck =>
            /\ tree' = tree
            /\ heap' = heap
            /\ checked'.clipboard \in {Top.clipboard, Top.ret.d}
            /\ checked'.ok => outcome' # "failed"
            /\ (checked'.which = "requirements" /\ stack' # <<>>)
                  => Head(stack').clipboard = Top.clipboard]_vars

\* A check fails on a clipboard that lacks two keys of the set
C11_Witness ==
    /\ checked # NoCheck
    /\ ~checked.ok
    /\ Cardinality(checked.check \ DOMAIN checked.clipboard) = 2
    /\ log[1].level = "WARN"

----------------------------------------------------------------------------
(* Stage objects are read-only at run time *)

----------------------------------------------------------------------------
(* The abstract run *)

\* The latest invocation made in the run
LastCall == calls[Len(calls)]

\* C13: every invocation of the run BaseStage defines ends the whole run at
\* once with a NotImplementedError raised by that stage, whatever the
\* clipboard, and leaves the lists of the clipboard as they were; and a run
\* fails with NotImplementedError only in this way, so the failure is told
\* apart from a failed requirement, provision or length check.
C13_NotImplemented ==
    /\ [][In("BaseStage.run", "start") =>
            /\ outcome' = "failed"
            /\ stack' = <<>>
            /\ error' = Raise("NotImplementedError", Top.self, 79)
            /\ heap' = heap]_vars
    /\ [](outcome = "failed" =>
            (error.kind = "NotImplementedError"
                <=> (LastCall.fn = "BaseStage.run" /\ error.line = 79)))
    /\ []((outcome = "failed" /\ error.kind = "NotImplementedError") =>
            /\ error.kind \notin {"RuntimeError", "AssertionError", "KeyError"}
            /\ error.line \notin {146, 148, 152, 177, 183, 187, 202}
            /\ error.stage = LastCall.stage)

\* The abstract run was reached as the body of an iterating stage
C13_Witness ==
    /\ outcome = "failed"
    /\ error.kind = "NotImplementedError"
    /\ tree.kind = "IterateStage"
    /\ LastCall.at # <<>>

----------------------------------------------------------------------------
(* MultiStage.run: failures *)

\* C14: MultiStage.run on a clipboard that lacks a key of the composite's
\* derived requires ends the run with the RuntimeError of line 146 in its
\* first step: no child is invoked and no child's requirements are checked,
\* also when only the last child or only the composite's own explicit
\* requires needs the missing key.
C14_FailsBeforeChildren ==
    /\ [][(In("MultiStage.run", "start") /\ ~(Self.requires \subseteq DOMAIN Top.clipboard)) =>
            /\ outcome' = "failed"
            /\ error' = Raise("RuntimeError", Top.self, 146)
            /\ calls' = calls
            /\ checked'.stage = Top.self]_vars
    /\ []((Built /\ tree.kind = "MultiStage" /\ ~(tree.requires \subseteq DOMAIN clipboard0)) =>
            /\ ChildCalls = <<>>
            /\ checked.stage = <<>>
            /\ outcome # "returned"
            /\ outcome = "failed" => error = Raise("RuntimeError", <<>>, 146))

\* The run failed at line 146 for a key only the last of two children needs
C14_Witness ==
    /\ outcome = "failed"
    /\ error = Raise("RuntimeError", <<>>, 146)
    /\ tree.kind = "MultiStage"
    /\ args.requires = ArgNone
    /\ Len(tree.stages) = 2
    /\ tree.stages[1].requires = {}
    /\ tree.stages[2].requires # {}
    /\ calls = <<[stage |-> <<>>, fn |-> "MultiStage.run", at |-> <<>>]>>

\* C15: in MultiStage.run, a child that hands back a dict lacking a key of
\* its provides fails the assertion of line 152, and a child whose requires
\* the running clipboard does not satisfy fails the assertion of line 148;
\* either ends the whole run in that step, through every enclosing stage:
\* the dict is not merged, no list is written, no further child is invoked
\* and no enclosing iteration goes on to another index, for nothing happens
\* after a failure.
C15_FailsAtChild ==
    /\ [][(/\ In("MultiStage.run", "returned")
           /\ Top.ret.t # "None"
           /\ ~(Self.stages[Top.j].provides \subseteq DOMAIN Top.ret.d)) =>
             /\ outcome' = "failed"
             /\ stack' = <<>>
             /\ error' = Raise("AssertionError", Top.self, 152)
             /\ calls' = calls
             /\ heap' = heap]_vars
    /\ [][(/\ In("MultiStage.run", "loop")
           /\ Top.j <= Len(Self.stages)
           /\ ~(Self.stages[Top.j].requires \subseteq DOMAIN Top.clipboard)) =>
             /\ outcome' = "failed"
             /\ stack' = <<>>
             /\ error' = Raise("AssertionError", Top.self, 148)
             /\ calls' = calls
             /\ heap' = heap]_vars
    /\ [][outcome # "failed"]_vars

\* The first of two children broke its provides at index 0 of an iteration
\* over two elements
C15_Witness ==
    /\ outcome = "failed"
    /\ error = Raise("AssertionError", <<>>, 152)
    /\ tree.kind = "IterateMultiStage"
    /\ Len(tree.stages) = 2
    /\ IterationLength = 2
    /\ Len(BodyCalls) = 1
    /\ Len(ChildCalls) = 1

----------------------------------------------------------------------------
(* MultiStage.run: the clipboard it threads through its children *)

\* What the children of a top-level MultiStage returned, call by call
ChildReturned == SelectSeq(returns, LAMBDA b : Len(b.stage) = 1 /\ b.at = <<>>)

\* The clipboard overridden by the first n of the returned values in order,
\* a None contributing nothing
RECURSIVE Fold(_, _, _)
Fold(clip, rets, n) ==
    IF n = 0 THEN clip
    ELSE LET before == Fold(clip, rets, n - 1)
         IN IF rets[n].ret.t = "None" THEN before
            ELSE [x \in DOMAIN before \cup DOMAIN rets[n].ret.d |->
                    IF x \in DOMAIN rets[n].ret.d THEN rets[n].ret.d[x] ELSE before[x]]

\* C16: a MultiStage.run that returns hands back the clipboard it was given
\* overridden by the dict of each child in declared order, a child that
\* returned None contributing nothing: later children win, no key is lost;
\* and the clipboard child Ci is invoked with is that fold over the children
\* before it.
C16_FoldOfDeltas ==
    (Built /\ tree.kind = "MultiStage") =>
        /\ outcome = "returned" =>
              /\ Len(ChildReturned) = Len(tree.stages)
              /\ result = RetDict(Fold(clipboard0, ChildReturned, Len(tree.stages)))
              /\ DOMAIN clipboard0 \subseteq DOMAIN result.d
        /\ (outcome = "running" /\ Len(stack) = 2 /\ Top.pc = "start") =>
              /\ Top.self = <<Len(ChildReturned) + 1>>
              /\ Top.clipboard = Fold(clipboard0, ChildReturned, Len(ChildReturned))

\* Two children rebound a key of the incoming clipboard to different values
C16_Witness ==
    /\ outcome = "returned"
    /\ tree.kind = "MultiStage"
    /\ Len(ChildReturned) = 2
    /\ has_key(clipboard0, "k")
    /\ \A n \in {1, 2} : ChildReturned[n].ret.t = "dict" /\ has_key(ChildReturned[n].ret.d, "k")
    /\ ChildReturned[1].ret.d["k"] # ChildReturned[2].ret.d["k"]
    /\ result.d["k"] = ChildReturned[2].ret.d["k"]

----------------------------------------------------------------------------
(* IterateStage.run: the outer clipboard *)

\* The frames of iterating stages whose body has just been entered
BodyEntered ==
    {p \in 2..Len(stack) : /\ stack[p].fn = "IterateStage.run"
                           /\ stack[p].pc = "called"
                           /\ stack[p - 1].pc = "start"}

\* C17: an iterating stage that returns hands back the clipboard it was
\* given: the same keys, every key bound as before, an iterated key still
\* to its own list, and no list ever changes its length.  The outer
\* clipboard of the stage is the same throughout the run, and the clipboard
\* the body gets for an index has the keys of the outer clipboard with the
\* keys that are not iterated bound as in it, so nothing a body added or
\* rebound for one index shows in the outer clipboard or for another index.
C17_OuterClipboardKept ==
    /\ []((Iterating /\ outcome = "returned") => result = RetDict(clipboard0))
    /\ []((Iterating /\ stack # <<>>) => stack[Len(stack)].clipboard = clipboard0)
    /\ [](stack # <<>> => \A p \in BodyEntered :
            /\ DOMAIN stack[p - 1].clipboard = DOMAIN stack[p].clipboard
            /\ \A x \in DOMAIN stack[p].clipboard \ DOMAIN stack[p].iterate :
                    stack[p - 1].clipboard[x] = stack[p].clipboard[x])
    /\ [][\A a \in DOMAIN heap : Len(heap'[a]) = Len(heap[a])]_vars

\* The body bound a key the outer clipboard lacks, at both of two indices
C17_Witness ==
    /\ Iterating
    /\ outcome = "returned"
    /\ IterationLength = 2
    /\ ~has_key(clipboard0, "k")
    /\ Len(BodyReturned) = 2
    /\ \A n \in {1, 2} : has_key(BodyReturned[n].ret.d, "k")
    /\ result = RetDict(clipboard0)

----------------------------------------------------------------------------
(* The iterate designator *)

\* C18: an iterating stage given the bare name K of a key, of any length,
\* runs over the list bound to K as if it had been given the list [K]: with
\* K bound in the clipboard the lookup of line 182 finds its key, and K is
\* the one name the loop runs over.
C18_SingleKey ==
    (Iterating /\ tree.iterate.t = "str" /\ has_key(clipboard0, tree.iterate.s)) =>
        /\ ~(outcome = "failed" /\ error.kind = "KeyError" /\ error.line = 182)
        /\ \A p \in 1..Len(stack) :
              (stack[p].self = <<>> /\ stack[p].fn = "IterateStage.run"
                 /\ stack[p].pc \in {"loop", "called", "returned"})
                  => DOMAIN stack[p].iterate = {tree.iterate.s}

----------------------------------------------------------------------------
(* IterateStage.run: the closing provisions check *)

\* The top-level iterating stage declares a key the driver's clipboard lacks
ProvidesAbsent == Iterating /\ ~(tree.provides \subseteq DOMAIN clipboard0)

\* C19: an iterating stage returns only if every key of its provides is in
\* the clipboard it was given.  When a key is missing the run never returns:
\* unless it fails earlier, it gets through every index and then fails the
\* assertion of line 202, whatever the length of the lists, with the body
\* called and finished once per index.
C19_ProvidesAlreadyPresent ==
    /\ []((Iterating /\ outcome = "returned") => tree.provides \subseteq DOMAIN clipboard0)
    /\ [](ProvidesAbsent =>
            /\ outcome # "returned"
            /\ (outcome = "failed" /\ error.line = 202) =>
                  /\ error = Raise("AssertionError", <<>>, 202)
                  /\ AllLists
                  /\ Len(BodyCalls) = IterationLength
                  /\ Len(BodyReturned) = IterationLength)
    /\ [][(/\ ProvidesAbsent
           /\ In("IterateStage.run", "loop")
           /\ Top.self = <<>>
           /\ Top.length # None
           /\ Top.index >= Top.length) =>
             /\ outcome' = "failed"
             /\ error' = Raise("AssertionError", <<>>, 202)]_vars

\* Children that provide a key the clipboard lacks ran for both of two
\* indices, and the run then failed at line 202
C19_Witness ==
    /\ ProvidesAbsent
    /\ tree.kind = "IterateMultiStage"
    /\ args.provides = ArgNone
    /\ outcome = "failed"
    /\ error = Raise("AssertionError", <<>>, 202)
    /\ IterationLength = 2
    /\ Len(BodyReturned) = 2

----------------------------------------------------------------------------
(* IterateStage.run: no rollback *)

\* The lists as the driver passed them (a list never changes its length)
Original == Heap(Len(heap[AddrA]), Len(heap[AddrB]))

\* The body of the top-level iterating stage was called for an index and
\* has not returned: it is running, or it failed
BodyUnfinished == Len(BodyCalls) = Len(BodyReturned) + 1

\* C20: nothing is rolled back.  While the body of an iterating stage is
\* running for index k, and after it failed there, element i of every
\* iterated list is what the body returned for that key at index i for
\* i < k, and the original element for i >= k; a list that is not iterated
\* over is as the driver passed it.  So an index is written back only after
\* its body returned, and for every iterated key before the body is called
\* for the next index.
C20_NoRollback ==
    (Iterating /\ AllLists /\ BodyUnfinished) =>
        LET k == Len(BodyReturned)
            names == Range(Names(tree.iterate))
        IN /\ \A name \in names : \A i \in 1..Len(heap[clipboard0[name].v]) :
                 IF i <= k
                 THEN /\ BodyReturned[i].ret.t = "dict"
                      /\ has_key(BodyReturned[i].ret.d, name)
                      /\ heap[clipboard0[name].v][i] = BodyReturned[i].ret.d[name]
                 ELSE heap[clipboard0[name].v][i] = Original[clipboard0[name].v][i]
           /\ \A a \in DOMAIN heap \ {clipboard0[name].v : name \in names} :
                 heap[a] = Original[a]

\* The body failed at the second of two indices after the first index was
\* written back with a new value
C20_Witness ==
    /\ Iterating /\ AllLists /\ BodyUnfinished
    /\ outcome = "failed"
    /\ IterationLength = 2
    /\ Len(BodyReturned) = 1
    /\ \E name \in Range(Names(tree.iterate)) :
          /\ heap[clipboard0[name].v][1] # Original[clipboard0[name].v][1]
          /\ heap[clipboard0[name].v][2] = Original[clipboard0[name].v][2]

====
